---------------------------- MODULE Spec2Model ----------------------------
(***************************************************************************)
(* Model of the InterstellarIntelligence planning engine: the reference   *)
(* simulation facade (initialize / compute / step), the graph-search       *)
(* solver over quantized states, the quantizer and the thrust action       *)
(* model.                                                                  *)
(*                                                                         *)
(* Arithmetic.  The engine computes in double precision.  The model        *)
(* computes in the integers and only uses configurations on which every    *)
(* division the code performs is exact (dt_u is even, thrust levels are    *)
(* multiples of 3 * (mass + fuel) for every fuel the tank can hold), so    *)
(* that \div below is true division.  Gravity and the time-dilation factor *)
(* are below that resolution for the body masses and speeds used here      *)
(* (G = 6.7e-11, c = 3e8): gravity() is the zero vector and gamma() and    *)
(* invGamma() are 1.  Angles are counted in quarter turns and the craft    *)
(* moves along one axis, where normalized() and rotate2d() are exact.      *)
(* Hash containers are sets and maps keyed by operator==.                  *)
(***************************************************************************)
EXTENDS Integers, Sequences, FiniteSets, TLC

VARIABLES
    config_,        \* ReferenceSimulation::config_ (<<>> before initialize)
    frontier,       \* Solver::strategy, the frontier shared by all solves
    visited,        \* Solver::solve local: SeenSet visited
    parent_map,     \* Solver::solve local: ParentMap parent_map
    pc,             \* "idle" | "solving" | "reconstructing"
    last_result_,   \* std::optional<SolverResult>: <<>> or <<result>>
    current_step_,  \* index of the next path element step() dispenses
    raised,         \* exception raised by the last facade call, or "none"
    frame,          \* frame returned by the last step(): <<>> or <<frame>>
    popped,         \* history: states popped by the current solve, in order
    pushed,         \* history: states pushed by the current solve, in order
    solves,         \* history: number of solves started on the current solver
    computes,       \* history: number of compute() calls so far
    inits,          \* history: number of initialize() calls so far
    runs,           \* history: one record per finished compute(), in order
    calls,          \* history: step() calls since the last result was stored,
                    \* counted up to one past the length of its path
    call,           \* the last call of a component on its own: <<>> or
                    \* <<[fn, args, ret]>>, ret being <<>> when it threw
    max_cost        \* the max_cost argument of the solve called last

vars == <<config_, frontier, visited, parent_map, pc, last_result_,
          current_step_, raised, frame, popped, pushed, solves, computes,
          inits, runs, calls, call, max_cost>>

-----------------------------------------------------------------------------
(* Bounds of the model *)

MaxComputes == 3
MaxInits == 2
MaxPops == 60

-----------------------------------------------------------------------------
(* 2x1 matrices *)

VAdd(a, b) == <<a[1] + b[1], a[2] + b[2]>>
VSub(a, b) == <<a[1] - b[1], a[2] - b[2]>>
VScale(a, s) == <<a[1] * s, a[2] * s>>
VDiv(a, d) == <<a[1] \div d, a[2] \div d>>
Zero2 == <<0, 0>>

\* normp(v, 2) is compared through its square
NormSq(a) == a[1] * a[1] + a[2] * a[2]

Sgn(n) == IF n > 0 THEN 1 ELSE IF n < 0 THEN -1 ELSE 0

\* MathConfig::floatEquals(a, b): |a - b| < epsilon, on integers a = b
floatEquals(a, b) == a = b

\* MathConfig::normalized on an axis-aligned vector
normalized(v) == <<Sgn(v[1]), Sgn(v[2])>>

\* Matrix::rotate2d(angle) applied to a direction, angle in quarter turns
rotate2d(angle, d) ==
    CASE angle % 4 = 0 -> d
      [] angle % 4 = 1 -> <<-d[2], d[1]>>
      [] angle % 4 = 2 -> <<-d[1], -d[2]>>
      [] angle % 4 = 3 -> <<d[2], -d[1]>>

\* clamp that lets a value below min_val through
clamp_Identity(value, min_val) == value

\* MathConfig::clamp(value, min_val) with max_val = infinity
clamp(value, min_val) == IF value < min_val THEN min_val ELSE value

\* MathConfig::safeDiv(n, d, fallback)
safeDiv(n, d, fallback) == IF d = 0 THEN fallback ELSE n \div d

\* MathConfig::infinity, above every cost the model reaches
infinity == 1000000

\* std::round of the quotient n / d (d > 0): halves round away from zero
round(n, d) ==
    IF n >= 0 THEN (2 * n + d) \div (2 * d)
    ELSE -((2 * (-n) + d) \div (2 * d))

-----------------------------------------------------------------------------
(* Matrix: homogeneous coordinates *)

toHomogeneous(v) == <<v[1], v[2], 1>>
fromHomogeneous(h) == <<h[1], h[2]>>

\* rotate2d(angle) * d for a homogeneous 3x1 vector d
rotate2dH(angle, d) ==
    LET r == rotate2d(angle, <<d[1], d[2]>>) IN <<r[1], r[2], d[3]>>

-----------------------------------------------------------------------------
(* State vertices, actions, optional values *)

\* std::optional / shared_ptr: <<>> is nullopt / nullptr, <<v>> holds v
None == <<>>
Some(v) == <<v>>

StateVertex(position, velocity, t_u, fuel, collected_artifacts) ==
    [x |-> position, v |-> velocity, t_u |-> t_u, fuel |-> fuel,
     collected_artifacts |-> collected_artifacts]

isValid(sv) == Len(sv.x) = 2 /\ Len(sv.v) = 2 /\ sv.fuel >= 0

ThrustAction(thrust_level, dt_global, dir) ==
    [thrust_level |-> thrust_level, direction |-> dir, dt_global |-> dt_global]

cost(action) == action.dt_global

StateAction(state, action) == [state |-> state, action |-> action]

SeqRange(s) == {s[i] : i \in 1..Len(s)}

-----------------------------------------------------------------------------
(* Environment model, world index, time policy *)

\* ConcreteEnvironment::gravity, below the resolution of the model
gravity(c, position, t_u) == Zero2

\* ConcreteEnvironment::gamma and invGamma, 1 at the resolution of the model
gamma(c, position, velocity, t_u) == 1
invGamma(c, position, velocity, t_u) == 1

\* StationaryBody::pos
pos(body, t) == body.position

queryCelestials(c, position, radius, t_u) ==
    {b \in SeqRange(c.bodies) :
        NormSq(VSub(pos(b, t_u), position)) <= radius * radius}

queryArtifacts(c, position, radius, t_u) ==
    {a \in SeqRange(c.artifacts) :
        NormSq(VSub(a.position, position)) <= radius * radius}

\* MathConfig::epsilon = 1e-12, which is 0 on the integer lattice
epsilon == 0

\* SimpleTimePolicy::toProper: the rectangle sum of invGamma over dt_u in
\* steps of 0.01, which in exact arithmetic is dt_u * invGamma; in double
\* precision the loop can run one step more or less, which moves the result
\* by 0.01 and is not modelled
toProper(c, dt_u, position, velocity, t_u) ==
    dt_u * invGamma(c, position, velocity, t_u)

dtu(c) == c.dt_u

\* a horizon that lets one more step through
tmax_OneStepLate(c) == c.tmax_u + c.dt_u

\* TimePolicy::tmax
tmax(c) == c.tmax_u

-----------------------------------------------------------------------------
(* Thrust action model *)

direction(from) ==
    IF ~floatEquals(NormSq(from.v), 0) THEN normalized(from.v) ELSE <<1, 0>>

\* enumerate with the loops nested the other way round: thrust levels outside
enumerate_LevelsOuter(c, from) ==
    LET forward == direction(from)
        d == toHomogeneous(forward)
        nd == Len(c.possible_directions)
        nl == Len(c.thrust_levels)
        thrustAt(n) ==
            LET angle == c.possible_directions[((n - 1) % nd) + 1]
                thrust_level == c.thrust_levels[((n - 1) \div nd) + 1]
            IN  ThrustAction(thrust_level, dtu(c),
                             fromHomogeneous(rotate2dH(angle, d)))
    IN  [n \in 1..(nd * nl + 1) |->
            IF n <= nd * nl THEN thrustAt(n)
            ELSE ThrustAction(0, dtu(c), fromHomogeneous(d))]

enumerate(c, from) ==
    LET forward == direction(from)
        d == toHomogeneous(forward)
        nd == Len(c.possible_directions)
        nl == Len(c.thrust_levels)
        thrustAt(n) ==
            LET angle == c.possible_directions[((n - 1) \div nl) + 1]
                thrust_level == c.thrust_levels[((n - 1) % nl) + 1]
            IN  ThrustAction(thrust_level, dtu(c),
                             fromHomogeneous(rotate2dH(angle, d)))
    IN  [n \in 1..(nd * nl + 1) |->
            IF n <= nd * nl THEN thrustAt(n)
            ELSE ThrustAction(0, dtu(c), fromHomogeneous(d))]

IntState(x, v, fuel, t_u) == [x |-> x, v |-> v, fuel |-> fuel, t_u |-> t_u]

\* IntState::operator+
IPlus(a, b) ==
    IntState(VAdd(a.x, b.x), VAdd(a.v, b.v), a.fuel + b.fuel, a.t_u + b.t_u)

\* IntState::operator* by the scalar num / den
ITimes(a, num, den) ==
    IntState(VDiv(VScale(a.x, num), den), VDiv(VScale(a.v, num), den),
             (a.fuel * num) \div den, (a.t_u * num) \div den)

\* deriv whose clock stands still
deriv_FrozenClock(c, ptr, s) ==
    LET y == gamma(c, s.x, s.v, s.t_u)
        total_mass == c.mass + s.fuel
        a_g == gravity(c, s.x, s.t_u)
        a_th == IF s.fuel > 0
                THEN VScale(ptr.direction, ptr.thrust_level \div total_mass)
                ELSE Zero2
    IN  IntState(VScale(s.v, y), VScale(VAdd(a_g, a_th), y),
                 safeDiv(-ptr.thrust_level, c.exhaust_speed, 0), 0)

\* the lambda deriv of findIntState
deriv(c, ptr, s) ==
    LET y == gamma(c, s.x, s.v, s.t_u)
        total_mass == c.mass + s.fuel
        a_g == gravity(c, s.x, s.t_u)
        a_th == IF s.fuel > 0
                THEN VScale(ptr.direction, ptr.thrust_level \div total_mass)
                ELSE Zero2
    IN  IntState(VScale(s.v, y), VScale(VAdd(a_g, a_th), y),
                 safeDiv(-ptr.thrust_level, c.exhaust_speed, 0), y)

\* MathConfig::rk4Integrate for the autonomous system deriv
rk4Integrate(c, ptr, x0, dt) ==
    LET k1 == deriv(c, ptr, x0)
        k2 == deriv(c, ptr, IPlus(x0, ITimes(k1, dt, 2)))
        k3 == deriv(c, ptr, IPlus(x0, ITimes(k2, dt, 2)))
        k4 == deriv(c, ptr, IPlus(x0, ITimes(k3, dt, 1)))
        sum == IPlus(IPlus(k1, ITimes(k2, 2, 1)), IPlus(ITimes(k3, 2, 1), k4))
    IN  IPlus(x0, ITimes(sum, dt, 6))

findIntState(c, from, ptr) ==
    LET dt_prop == toProper(c, ptr.dt_global, from.x, from.v, from.t_u)
    IN  rk4Integrate(c, ptr, IntState(from.x, from.v, from.fuel, from.t_u),
                     dt_prop)

\* artifactsHere with a capture radius that reaches past the end point
artifactsHere_Nearby(c, position, t_u) ==
    {a.id : a \in queryArtifacts(c, position, 30, t_u)}

artifactsHere(c, position, t_u) ==
    {a.id : a \in queryArtifacts(c, position, epsilon, t_u)}

\* detectCollision that lets the craft touch the surface of a body
detectCollision_Strict(c, position, t_u) ==
    LET bodies == SeqRange(c.bodies)
        max_radius == IF bodies = {} THEN 0
                      ELSE CHOOSE r \in {b.radius : b \in bodies} :
                               \A b \in bodies : b.radius <= r
        nearby_bodies == queryCelestials(c, position, max_radius + 1, t_u)
    IN  \E body \in nearby_bodies :
            NormSq(VSub(position, pos(body, t_u))) < body.radius * body.radius

detectCollision(c, position, t_u) ==
    LET bodies == SeqRange(c.bodies)
        max_radius == IF bodies = {} THEN 0
                      ELSE CHOOSE r \in {b.radius : b \in bodies} :
                               \A b \in bodies : b.radius <= r
        nearby_bodies == queryCelestials(c, position, max_radius + 1, t_u)
    IN  \E body \in nearby_bodies :
            NormSq(VSub(position, pos(body, t_u))) <= body.radius * body.radius

\* checkConstraints without the collision test
checkConstraints_NoCollision(c, state) ==
    /\ isValid(state)
    /\ state.t_u <= tmax(c)
    /\ c.max_radius * c.max_radius >= NormSq(state.x)

checkConstraints(c, state) ==
    /\ ~detectCollision(c, state.x, state.t_u)
    /\ isValid(state)
    /\ state.t_u <= tmax(c)
    /\ c.max_radius * c.max_radius >= NormSq(state.x)

\* apply that keeps only the artifacts found at the new position
apply_NoUnion(c, from, action) ==
    LET s_new == findIntState(c, from, action)
        fuel == clamp(s_new.fuel, 0)
        artifacts == artifactsHere(c, s_new.x, s_new.t_u)
        new_state == StateVertex(s_new.x, s_new.v, s_new.t_u, fuel, artifacts)
    IN  IF checkConstraints(c, new_state) THEN Some(new_state) ELSE None

\* ThrustActionModel::apply: None or Some(successor)
apply(c, from, action) ==
    LET s_new == findIntState(c, from, action)
        fuel == clamp(s_new.fuel, 0)
        artifacts == from.collected_artifacts
                        \cup artifactsHere(c, s_new.x, s_new.t_u)
        new_state == StateVertex(s_new.x, s_new.v, s_new.t_u, fuel, artifacts)
    IN  IF checkConstraints(c, new_state) THEN Some(new_state) ELSE None

-----------------------------------------------------------------------------
(* Quantizer *)

DiscreteState(qx, qv, qt_u, qfuel, collected_artifacts) ==
    [qx |-> qx, qv |-> qv, qt_u |-> qt_u, qfuel |-> qfuel,
     collected_artifacts |-> collected_artifacts]

\* q that leaves the collected set of the key at its default, the empty set
q_DropsCollected(c, sv) ==
    DiscreteState(<<round(sv.x[1], c.pos_bin), round(sv.x[2], c.pos_bin)>>,
                  <<round(sv.v[1], c.vel_bin), round(sv.v[2], c.vel_bin)>>,
                  round(sv.t_u, c.time_bin),
                  round(sv.fuel, c.fuel_bin),
                  {})

\* Quantizer::q
q(c, sv) ==
    DiscreteState(<<round(sv.x[1], c.pos_bin), round(sv.x[2], c.pos_bin)>>,
                  <<round(sv.v[1], c.vel_bin), round(sv.v[2], c.vel_bin)>>,
                  round(sv.t_u, c.time_bin),
                  round(sv.fuel, c.fuel_bin),
                  sv.collected_artifacts)

-----------------------------------------------------------------------------
(* Frontier strategy: the reference FIFO container *)

push(f, sv) == Append(f, sv)
front(f) == Head(f)
rest(f) == Tail(f)
empty(f) == f = <<>>

-----------------------------------------------------------------------------
(* Solver *)

\* neighbors that gives up on a state at its first infeasible action
neighbors_StopAtNone(c, sv) ==
    LET actions == enumerate(c, sv)
        tried == [i \in 1..Len(actions) |->
                    [maybe_next |-> apply(c, sv, actions[i]),
                     action |-> actions[i]]]
        failed == {i \in 1..Len(tried) : tried[i].maybe_next = None}
        kept == SubSeq(tried, 1,
                    IF failed = {} THEN Len(tried)
                    ELSE (CHOOSE i \in failed : \A k \in failed : i <= k) - 1)
    IN  [i \in 1..Len(kept) |->
            StateAction(kept[i].maybe_next[1], Some(kept[i].action))]

\* Solver::neighbors, for the single thrust action model
neighbors(c, sv) ==
    LET actions == enumerate(c, sv)
        tried == [i \in 1..Len(actions) |->
                    [maybe_next |-> apply(c, sv, actions[i]),
                     action |-> actions[i]]]
        kept == SelectSeq(tried, LAMBDA e : e.maybe_next # None)
    IN  [i \in 1..Len(kept) |->
            StateAction(kept[i].maybe_next[1], Some(kept[i].action))]

Reverse(s) == [i \in 1..Len(s) |-> s[Len(s) + 1 - i]]

\* the while loop of Solver::reconstruct; a walk longer than the parent map
\* has entries revisits a key and never ends
RECURSIVE reconstructLoop(_, _, _, _, _)
reconstructLoop(c, v, a, pm, path) ==
    LET path1 == Append(path, StateAction(v, a))
        key == q(c, v)
    IN  IF key \notin DOMAIN pm
        THEN [diverges |-> FALSE, path |-> path1]
        ELSE IF Len(path1) > Cardinality(DOMAIN pm)
        THEN [diverges |-> TRUE, path |-> path1]
        ELSE reconstructLoop(c, pm[key].state, pm[key].action, pm, path1)

\* reconstruct that leaves the root of the walk out of the path
reconstruct_WithoutRoot(c, goal, pm) ==
    LET walk == reconstructLoop(c, goal, None, pm, <<>>)
    IN  [diverges |-> walk.diverges, path |-> Tail(Reverse(walk.path))]

\* Solver::reconstruct
reconstruct(c, goal, pm) ==
    LET walk == reconstructLoop(c, goal, None, pm, <<>>)
    IN  [diverges |-> walk.diverges, path |-> Reverse(walk.path)]

RECURSIVE foldLeft(_, _, _)
foldLeft(range, n, init) ==
    IF n = 0 THEN init ELSE foldLeft(range, n - 1, init) + range[n]

\* computeCost that skips the first element instead of the last
computeCost_DropFirst(path) ==
    LET taken == SubSeq(path, 2, Len(path))
        costs == [i \in 1..Len(taken) |->
                    IF taken[i].action # None THEN cost(taken[i].action[1])
                    ELSE 0]
    IN  foldLeft(costs, Len(costs), 0)

computeCost(path) ==
    LET taken == SubSeq(path, 1, Len(path) - 1)
        costs == [i \in 1..Len(taken) |->
                    IF taken[i].action # None THEN cost(taken[i].action[1])
                    ELSE 0]
    IN  foldLeft(costs, Len(costs), 0)

SolverResult(path, total_cost) == [path |-> path, total_cost |-> total_cost]

\* visit that records the parent of a key again when the key was seen before
visit_LastParent(c, current, nh, st) ==
    LET q_neighbor == q(c, nh.state)
        action == nh.action
        seen == q_neighbor \in st.visited
    IN  [visited |-> st.visited \cup {q_neighbor},
         parent_map |->
            [k \in DOMAIN st.parent_map \cup {q_neighbor} |->
                IF k = q_neighbor THEN StateAction(current, action)
                ELSE st.parent_map[k]],
         frontier |-> IF seen THEN st.frontier
                      ELSE push(st.frontier, nh.state),
         pushed |-> IF seen THEN st.pushed ELSE Append(st.pushed, nh.state)]

\* the body of the for loop of Solver::solve for one neighbor nh
visit(c, current, nh, st) ==
    LET q_neighbor == q(c, nh.state)
        action == nh.action
    IN  IF q_neighbor \notin st.visited
        THEN [visited |-> st.visited \cup {q_neighbor},
              parent_map |->
                 [k \in DOMAIN st.parent_map \cup {q_neighbor} |->
                     IF k = q_neighbor THEN StateAction(current, action)
                     ELSE st.parent_map[k]],
              frontier |-> push(st.frontier, nh.state),
              pushed |-> Append(st.pushed, nh.state)]
        ELSE st

\* the for loop of Solver::solve over the first n of neighbors(current)
RECURSIVE expand(_, _, _, _, _)
expand(c, current, nhs, n, st) ==
    IF n = 0 THEN st
    ELSE visit(c, current, nhs[n], expand(c, current, nhs, n - 1, st))

\* one iteration of the loop of Solver::solve that expands current
expandAll(c, current, st) ==
    LET nhs == neighbors(c, current)
    IN  expand(c, current, nhs, Len(nhs), st)

-----------------------------------------------------------------------------
(* Reference simulation facade *)

\* the start vertex compute() builds from config_.initial_state
startOf(c) == StateVertex(c.position, c.velocity, 0, c.fuel, {})

\* a goal predicate that is off by one
isGoal_OffByOne(c, sv) == Cardinality(sv.collected_artifacts) >= c.k - 1

\* the goal predicate compute() passes to solve
isGoal(c, sv) == Cardinality(sv.collected_artifacts) >= c.k

\* ReferenceSimulation::toFrame
toFrame(c, state) ==
    [t_u |-> state.t_u,
     ship |-> [x |-> state.x, v |-> state.v, fuel |-> state.fuel, t_p |-> 0,
               collected_artifacts |-> state.collected_artifacts],
     bodies |-> [i \in 1..Len(c.bodies) |->
                    [id |-> c.bodies[i].id,
                     x |-> pos(c.bodies[i], state.t_u),
                     radius |-> c.bodies[i].radius,
                     mass |-> c.bodies[i].mass]],
     artifacts |-> [i \in 1..Len(c.artifacts) |->
                    [id |-> c.artifacts[i].id,
                     position |-> c.artifacts[i].position]]]

-----------------------------------------------------------------------------
(* Configurations handed to initialize() *)

Horizon == 6

\* one artifact where a forward burn from rest lands; thrust forward and back
BaseConfig ==
    [bodies |-> <<>>,
     artifacts |-> <<[id |-> 1, position |-> <<32, 0>>]>>,
     max_radius |-> 500,
     tmax_u |-> Horizon, dt_u |-> 2,
     pos_bin |-> 1, vel_bin |-> 1, time_bin |-> 1, fuel_bin |-> 1,
     mass |-> 1, max_fuel |-> 2,
     thrust_levels |-> <<0, 36>>, exhaust_speed |-> 36,
     possible_directions |-> <<0, 2>>,
     position |-> <<0, 0>>, velocity |-> <<0, 0>>, fuel |-> 2,
     k |-> 1]

\* the start already satisfies the goal
GoalAtStart == [BaseConfig EXCEPT !.k = 0]

\* one artifact after the burn, two more one coast further; two are wanted
ThreeArtifacts ==
    [BaseConfig EXCEPT
        !.artifacts = <<[id |-> 1, position |-> <<32, 0>>],
                        [id |-> 2, position |-> <<88, 0>>],
                        [id |-> 3, position |-> <<88, 0>>]>>,
        !.k = 2]

\* the artifact lies three steps away, behind the start
DeepGoal ==
    [BaseConfig EXCEPT
        !.artifacts = <<[id |-> 7, position |-> <<-144, 0>>]>>]

\* every action overshoots the horizon
HorizonReject == [BaseConfig EXCEPT !.tmax_u = 1]

\* the artifact lies inside a body: every step onto it collides
ArtifactInBody ==
    [BaseConfig EXCEPT
        !.bodies = <<[id |-> 1, radius |-> 2, mass |-> 1,
                      position |-> <<33, 0>>]>>]

\* a body that touches the point where the burn back lands; the universe ends
\* where the coast after the burn forward lands
BodyAndEdge ==
    [BaseConfig EXCEPT
        !.bodies = <<[id |-> 1, radius |-> 3, mass |-> 1,
                      position |-> <<-32, 3>>]>>,
        !.artifacts = <<[id |-> 4, position |-> <<88, 0>>]>>,
        !.max_radius = 88]

\* coarse bins: time is not distinguished and positions and velocities fall
\* into wide bins, so that coasting slowly stays on the key of the start; one
\* artifact where the second step back lands, one where the craft starts and
\* one that the second step back passes over
CoarseBins ==
    [BaseConfig EXCEPT
        !.artifacts = <<[id |-> 5, position |-> <<-80, 0>>],
                        [id |-> 6, position |-> <<0, 0>>],
                        [id |-> 8, position |-> <<-54, 0>>]>>,
        !.pos_bin = 40, !.vel_bin = 40, !.time_bin = 100,
        !.velocity = <<2, 0>>]

\* positions and times are not distinguished, two artifacts are wanted: the
\* forward track has two artifacts two steps away, the backward track has one
\* artifact two steps away and another one four steps away
CoastOnOneKey ==
    [BaseConfig EXCEPT
        !.artifacts = <<[id |-> 1, position |-> <<88, 0>>],
                        [id |-> 2, position |-> <<88, 0>>],
                        [id |-> 3, position |-> <<-88, 0>>],
                        [id |-> 4, position |-> <<-200, 0>>]>>,
        !.pos_bin = 1000, !.time_bin = 100,
        !.tmax_u = Horizon + 2,
        !.k = 2]

\* a body of radius 1 at (5,0) on the line the craft coasts along at speed
\* 10 with no thrust to use, one step taking it from (0,0) to (10,0); dt_u
\* is odd, which only makes the time of the middle stages of the integrator
\* inexact, and nothing here depends on that time
CollisionScenario ==
    [BaseConfig EXCEPT
        !.bodies = <<[id |-> 1, radius |-> 1, mass |-> 1,
                      position |-> <<5, 0>>]>>,
        !.artifacts = <<>>,
        !.tmax_u = 3, !.dt_u = 1,
        !.thrust_levels = <<0>>,
        !.possible_directions = <<0>>,
        !.velocity = <<10, 0>>]

\* position and velocity fall into one bin each, so that a key is a time, a
\* fuel level and a collected set: the burns forward and back from one state
\* share a key, and so do states reached through different parents; there
\* is nothing to collect
KeyPerTime ==
    [BaseConfig EXCEPT
        !.artifacts = <<>>,
        !.tmax_u = 4,
        !.pos_bin = 1000, !.vel_bin = 1000]

Configs == {BaseConfig, GoalAtStart, ThreeArtifacts, DeepGoal, HorizonReject,
            ArtifactInBody, BodyAndEdge, CoarseBins, CoastOnOneKey,
            CollisionScenario, KeyPerTime}

-----------------------------------------------------------------------------
(* Initial state: a constructed, uninitialized ReferenceSimulation *)

Init ==
    /\ config_ = None
    /\ frontier = <<>>
    /\ visited = {}
    /\ parent_map = <<>>
    /\ pc = "idle"
    /\ last_result_ = None
    /\ current_step_ = 0
    /\ raised = "none"
    /\ frame = None
    /\ popped = <<>>
    /\ pushed = <<>>
    /\ solves = 0
    /\ computes = 0
    /\ inits = 0
    /\ runs = <<>>
    /\ calls = 0
    /\ call = <<>>
    /\ max_cost = infinity

\* buildSolver() handing the strategy of the previous solver to the new one
newStrategy_Reused == frontier

\* the strategy buildSolver() hands to the new Solver
newStrategy == <<>>

\* ReferenceSimulation::initialize: stores the config and builds the
\* components, among them a solver with a frontier of its own
initialize(c) ==
    /\ pc = "idle"
    /\ inits < MaxInits
    /\ config_' = Some(c)
    /\ frontier' = newStrategy
    /\ solves' = 0
    /\ inits' = inits + 1
    /\ raised' = "none"
    /\ UNCHANGED <<visited, parent_map, pc, last_result_, current_step_,
                   frame, popped, pushed, computes, runs, calls,
                   call, max_cost>>

\* ReferenceSimulation::compute up to the first test of the loop condition
\* of Solver::solve: the start is pushed and its key marked visited; compute
\* leaves max_cost at its default
computeBegin ==
    /\ pc = "idle"
    /\ config_ # None
    /\ computes < MaxComputes
    /\ LET c == config_[1]
           start == startOf(c)
       IN  /\ visited' = {q(c, start)}
           /\ parent_map' = <<>>
           /\ frontier' = push(frontier, start)
           /\ pushed' = <<start>>
    /\ popped' = <<>>
    /\ pc' = "solving"
    /\ solves' = solves + 1
    /\ computes' = computes + 1
    /\ raised' = "none"
    /\ max_cost' = infinity
    /\ UNCHANGED <<config_, last_result_, current_step_, frame, inits, runs,
                   calls, call>>

\* Solver::solve called with a max_cost of the caller's choice, for the start
\* and the goal compute() builds, up to the first test of its loop condition
solveWith(mc) ==
    /\ pc = "idle"
    /\ config_ # None
    /\ computes < MaxComputes
    /\ LET c == config_[1]
           start == startOf(c)
       IN  /\ visited' = {q(c, start)}
           /\ parent_map' = <<>>
           /\ frontier' = push(frontier, start)
           /\ pushed' = <<start>>
    /\ popped' = <<>>
    /\ pc' = "solving"
    /\ solves' = solves + 1
    /\ computes' = computes + 1
    /\ raised' = "none"
    /\ max_cost' = mc
    /\ UNCHANGED <<config_, last_result_, current_step_, frame, inits, runs,
                   calls, call>>

\* compute() that swallows a missing result
computeOutcome_Silent(result) ==
    IF result # None
    THEN [raised |-> "none", last_result_ |-> result, current_step_ |-> 0]
    ELSE [raised |-> "none", last_result_ |-> last_result_,
          current_step_ |-> current_step_]

\* what compute() does with the value solve returned
computeOutcome(result) ==
    IF result # None
    THEN [raised |-> "none", last_result_ |-> result, current_step_ |-> 0]
    ELSE [raised |-> "SimulationFailed", last_result_ |-> last_result_,
          current_step_ |-> current_step_]

\* the history record of a finished compute()
runRecord(ret, out, pops, pushes) ==
    [config |-> config_[1], solve |-> solves, ret |-> ret,
     raised |-> out.raised, stored |-> out.last_result_,
     cursor |-> out.current_step_, popped |-> pops, pushed |-> pushes,
     max_cost |-> max_cost]

\* the walk of a reconstruction carried one step past the goal state, to the
\* first neighbor of the goal state
throughGoal(rec) ==
    LET path == rec.path
        nhs == neighbors(config_[1], path[Len(path)].state)
    IN  IF nhs = <<>> THEN rec
        ELSE [rec EXCEPT !.path =
                Append([path EXCEPT ![Len(path)].action = nhs[1].action],
                       StateAction(nhs[1].state, None))]

\* solveGoal that returns the path to the first neighbor of the goal state
solveGoal_ThroughGoal ==
    /\ pc = "solving"
    /\ ~empty(frontier)
    /\ isGoal(config_[1], front(frontier))
    /\ frontier' = rest(frontier)
    /\ popped' = Append(popped, front(frontier))
    /\ \E rec \in {throughGoal(reconstruct(config_[1], front(frontier),
                                        parent_map))} :
        \E result \in {SolverResult(rec.path, computeCost(rec.path))} :
        \E out \in {computeOutcome(Some(result))} :
           IF rec.diverges
           THEN /\ pc' = "reconstructing"
                /\ UNCHANGED <<last_result_, current_step_, raised, runs,
                               calls>>
           ELSE /\ pc' = "idle"
                /\ calls' = 0
                /\ last_result_' = out.last_result_
                /\ current_step_' = out.current_step_
                /\ raised' = out.raised
                /\ runs' = Append(runs,
                     runRecord(Some(result), out,
                               Append(popped, front(frontier)), pushed))
    /\ UNCHANGED <<config_, visited, parent_map, frame, pushed, solves,
                   computes, inits, call, max_cost>>

\* one iteration of the loop of solve that pops a goal state: the path is
\* reconstructed, solve returns it and compute() stores it
solveGoal ==
    /\ pc = "solving"
    /\ ~empty(frontier)
    /\ isGoal(config_[1], front(frontier))
    /\ frontier' = rest(frontier)
    /\ popped' = Append(popped, front(frontier))
    /\ \E rec \in {reconstruct(config_[1], front(frontier), parent_map)} :
        \E result \in {SolverResult(rec.path, computeCost(rec.path))} :
        \E out \in {computeOutcome(Some(result))} :
           IF rec.diverges
           THEN /\ pc' = "reconstructing"
                /\ UNCHANGED <<last_result_, current_step_, raised, runs,
                               calls>>
           ELSE /\ pc' = "idle"
                /\ calls' = 0
                /\ last_result_' = out.last_result_
                /\ current_step_' = out.current_step_
                /\ raised' = out.raised
                /\ runs' = Append(runs,
                     runRecord(Some(result), out,
                               Append(popped, front(frontier)), pushed))
    /\ UNCHANGED <<config_, visited, parent_map, frame, pushed, solves,
                   computes, inits, call, max_cost>>

\* solveExpand that does not expand a state whose elapsed time has reached
\* max_cost
solveExpand_Pruning ==
    /\ pc = "solving"
    /\ ~empty(frontier)
    /\ Len(popped) < MaxPops
    /\ ~isGoal(config_[1], front(frontier))
    /\ \E st \in {IF front(frontier).t_u >= max_cost
                  THEN [visited |-> visited, parent_map |-> parent_map,
                        frontier |-> rest(frontier), pushed |-> pushed]
                  ELSE expandAll(config_[1], front(frontier),
                        [visited |-> visited, parent_map |-> parent_map,
                         frontier |-> rest(frontier), pushed |-> pushed])} :
           /\ visited' = st.visited
           /\ parent_map' = st.parent_map
           /\ frontier' = st.frontier
           /\ pushed' = st.pushed
           /\ popped' = Append(popped, front(frontier))
    /\ UNCHANGED <<config_, pc, last_result_, current_step_, raised, frame,
                   solves, computes, inits, runs, calls, call, max_cost>>

\* one iteration of the loop of solve that pops a state which is no goal
\* and expands it
solveExpand ==
    /\ pc = "solving"
    /\ ~empty(frontier)
    /\ Len(popped) < MaxPops
    /\ ~isGoal(config_[1], front(frontier))
    /\ \E st \in {expandAll(config_[1], front(frontier),
                        [visited |-> visited, parent_map |-> parent_map,
                         frontier |-> rest(frontier), pushed |-> pushed])} :
           /\ visited' = st.visited
           /\ parent_map' = st.parent_map
           /\ frontier' = st.frontier
           /\ pushed' = st.pushed
           /\ popped' = Append(popped, front(frontier))
    /\ UNCHANGED <<config_, pc, last_result_, current_step_, raised, frame,
                   solves, computes, inits, runs, calls, call, max_cost>>

\* a failing compute() that also forgets the stored result
solveExhausted_Clears ==
    /\ pc = "solving"
    /\ empty(frontier)
    /\ LET out == [computeOutcome(None) EXCEPT !.last_result_ = None,
                                              !.current_step_ = 0]
       IN  /\ last_result_' = out.last_result_
           /\ current_step_' = out.current_step_
           /\ raised' = out.raised
           /\ runs' = Append(runs, runRecord(None, out, popped, pushed))
    /\ pc' = "idle"
    /\ UNCHANGED <<config_, frontier, visited, parent_map, frame, popped,
                   pushed, solves, computes, inits, calls, call, max_cost>>

\* the loop of solve ends on an empty frontier: solve returns nullopt and
\* compute() throws SimulationFailed
solveExhausted ==
    /\ pc = "solving"
    /\ empty(frontier)
    /\ LET out == computeOutcome(None)
       IN  /\ last_result_' = out.last_result_
           /\ current_step_' = out.current_step_
           /\ raised' = out.raised
           /\ runs' = Append(runs, runRecord(None, out, popped, pushed))
    /\ pc' = "idle"
    /\ UNCHANGED <<config_, frontier, visited, parent_map, frame, popped,
                   pushed, solves, computes, inits, calls, call, max_cost>>

\* the history counter calls after one more step()
counted ==
    IF last_result_ # None /\ calls <= Len(last_result_[1].path)
    THEN calls + 1 ELSE calls

\* step() before any result was stored that moves the cursor all the same
stepNotComputed_Advances ==
    /\ pc = "idle"
    /\ last_result_ = None
    /\ raised' = "SimulationFailed"
    /\ frame' = None
    /\ current_step_' = current_step_ + 1
    /\ UNCHANGED <<config_, frontier, visited, parent_map, pc, last_result_,
                   popped, pushed, solves, computes, inits, runs, call,
                   max_cost>>
    /\ calls' = counted

\* ReferenceSimulation::step before any result was stored
stepNotComputed ==
    /\ pc = "idle"
    /\ last_result_ = None
    /\ raised' = "SimulationFailed"
    /\ frame' = None
    /\ UNCHANGED <<config_, frontier, visited, parent_map, pc, last_result_,
                   current_step_, popped, pushed, solves, computes, inits,
                   runs, call, max_cost>>
    /\ calls' = counted

\* step() past the last path element that also rewinds the cursor
stepCompleted_Rewind ==
    /\ pc = "idle"
    /\ last_result_ # None
    /\ current_step_ >= Len(last_result_[1].path)
    /\ raised' = "SimulationCompleted"
    /\ frame' = None
    /\ current_step_' = 0
    /\ UNCHANGED <<config_, frontier, visited, parent_map, pc, last_result_,
                   popped, pushed, solves, computes, inits, runs, call,
                   max_cost>>
    /\ calls' = counted

\* ReferenceSimulation::step past the last path element
stepCompleted ==
    /\ pc = "idle"
    /\ last_result_ # None
    /\ current_step_ >= Len(last_result_[1].path)
    /\ raised' = "SimulationCompleted"
    /\ frame' = None
    /\ UNCHANGED <<config_, frontier, visited, parent_map, pc, last_result_,
                   current_step_, popped, pushed, solves, computes, inits,
                   runs, call, max_cost>>
    /\ calls' = counted

\* ReferenceSimulation::step dispensing the next frame
stepFrame ==
    /\ pc = "idle"
    /\ last_result_ # None
    /\ current_step_ < Len(last_result_[1].path)
    /\ LET sa == last_result_[1].path[current_step_ + 1]
       IN  frame' = Some(toFrame(config_[1], sa.state))
    /\ current_step_' = current_step_ + 1
    /\ raised' = "none"
    /\ UNCHANGED <<config_, frontier, visited, parent_map, pc, last_result_,
                   popped, pushed, solves, computes, inits, runs, call,
                   max_cost>>
    /\ calls' = counted

Next ==
    \/ \E c \in Configs : initialize(c)
    \/ computeBegin
    \/ solveGoal
    \/ solveExpand
    \/ solveExhausted
    \/ stepNotComputed
    \/ stepCompleted
    \/ stepFrame

Spec == Init /\ [][Next]_vars

\* the solver called directly: the values of max_cost and the configurations
\* it is called with
MaxCosts == {0, 1, infinity}
SolverConfigs == {BaseConfig, ThreeArtifacts, HorizonReject}

NextS ==
    \/ \E c \in SolverConfigs : initialize(c)
    \/ \E mc \in MaxCosts : solveWith(mc)
    \/ solveGoal
    \/ solveExpand
    \/ solveExhausted

SolverCalls == Init /\ [][NextS]_vars

-----------------------------------------------------------------------------
(* The components on their own: the entity constructors and the quantizer, *)
(* called with arguments of every kind                                     *)

MaxCoord == 3

\* Matrix::shape of a column vector
shape(m) == <<Len(m), 1>>

\* req: TRUE when it returns, FALSE when it throws std::runtime_error
req(condition) == condition

\* a constructor gives <<>> when it throws and <<object>> otherwise
WormHole(id, entry, exit, t_open, t_close) ==
    IF /\ req(t_open < t_close)
       /\ req(shape(entry) = <<2, 1>>)
       /\ req(shape(exit) = <<2, 1>>)
    THEN Some([id |-> id, entry |-> entry, exit |-> exit,
               t_open |-> t_open, t_close |-> t_close])
    ELSE None

CelestialBody(id, radius, mass) ==
    IF req(radius > 0) /\ req(mass > 0)
    THEN Some([id |-> id, radius |-> radius, mass |-> mass])
    ELSE None

StationaryBody(id, radius, mass, position) ==
    LET base == CelestialBody(id, radius, mass)
    IN  IF base = None THEN None
        ELSE Some([id |-> id, radius |-> radius, mass |-> mass,
                   position |-> position])

\* the strategy is a unique_ptr: <<>> or <<orbit>>
OrbitingBody(id, radius, mass, strategy) ==
    LET base == CelestialBody(id, radius, mass)
    IN  IF base = None THEN None
        ELSE IF req(strategy # None)
             THEN Some([id |-> id, radius |-> radius, mass |-> mass,
                        trajectory_strategy |-> strategy])
             ELSE None

\* angle in quarter turns: 2 * PI is 4
EllipticalOrbit(a, b, omega, phi, center, angle) ==
    IF /\ req(a > 0)
       /\ req(b > 0)
       /\ req(omega > 0)
       /\ req(shape(center) = <<2, 1>>)
       /\ req(angle >= 0 /\ angle < 4)
    THEN Some([center |-> center, a |-> a, b |-> b, omega |-> omega,
               phi |-> phi, angle |-> angle])
    ELSE None

Artifact(id, position) ==
    IF req(shape(position) = <<2, 1>>)
    THEN Some([id |-> id, position |-> position])
    ELSE None

Spacecraft(id, mass, fuel, min_fuel_to_land, thrust_levels, exhaust_velocity) ==
    IF /\ req(mass > 0)
       /\ req(fuel >= 0)
       /\ req(thrust_levels # <<>>)
       /\ \A n \in 1..Len(thrust_levels) : req(thrust_levels[n] >= 0)
       /\ req(exhaust_velocity > 0)
    THEN Some([id |-> id, mass |-> mass, fuel |-> fuel,
               min_fuel_to_land |-> min_fuel_to_land,
               thrust_levels |-> thrust_levels,
               exhaust_velocity |-> exhaust_velocity])
    ELSE None

\* the arguments the components are called with
Columns == {<<7>>, <<7, 0>>, <<7, 0, 1>>}
Sizes == {-1, 0, 1}
Times == 0..2
LevelLists == {<<>>, <<0>>, <<-1>>, <<0, 36>>, <<36, -1>>}
Orbits == {None} \cup
          {EllipticalOrbit(2, 1, 1, 0, <<7, 0>>, angle) : angle \in {0, 4}}
Bins == 1..3
Vertices ==
    {StateVertex(<<x, 0>>, <<v, 0>>, t, fuel, collected) :
        x \in (-MaxCoord)..MaxCoord, v \in {0, 1}, t \in {0, 3},
        fuel \in {0, 1}, collected \in {{}, {1}, {1, 2}}}

\* the quantizer configuration whose four bins are all b
QuantizerConfig(b) ==
    [pos_bin |-> b, vel_bin |-> b, time_bin |-> b, fuel_bin |-> b]

\* the call of a component recorded with what it gave
called(fn, args, ret) ==
    /\ call' = Some([fn |-> fn, args |-> args, ret |-> ret])
    /\ UNCHANGED <<config_, frontier, visited, parent_map, pc, last_result_,
                   current_step_, raised, frame, popped, pushed, solves,
                   computes, inits, runs, calls,
                   max_cost>>

constructWormHole ==
    /\ call = None /\ inits = 0
    /\ \E entry \in Columns, exit \in Columns, t_open \in Times,
          t_close \in Times :
           called("WormHole", <<1, entry, exit, t_open, t_close>>,
                  WormHole(1, entry, exit, t_open, t_close))

constructStationaryBody ==
    /\ call = None /\ inits = 0
    /\ \E radius \in Sizes, mass \in Sizes, position \in Columns :
           called("StationaryBody", <<1, radius, mass, position>>,
                  StationaryBody(1, radius, mass, position))

constructOrbitingBody ==
    /\ call = None /\ inits = 0
    /\ \E radius \in Sizes, mass \in Sizes, strategy \in Orbits :
           called("OrbitingBody", <<1, radius, mass, strategy>>,
                  OrbitingBody(1, radius, mass, strategy))

constructEllipticalOrbit ==
    /\ call = None /\ inits = 0
    /\ \E a \in Sizes, b \in Sizes, omega \in {0, 1}, center \in Columns,
          angle \in {0, 4} :
           called("EllipticalOrbit", <<a, b, omega, 0, center, angle>>,
                  EllipticalOrbit(a, b, omega, 0, center, angle))

constructArtifact ==
    /\ call = None /\ inits = 0
    /\ \E position \in Columns :
           called("Artifact", <<1, position>>, Artifact(1, position))

constructSpacecraft ==
    /\ call = None /\ inits = 0
    /\ \E mass \in {0, 1}, fuel \in {-1, 2}, thrust_levels \in LevelLists,
          exhaust_velocity \in {0, 36} :
           called("Spacecraft",
                  <<1, mass, fuel, 0, thrust_levels, exhaust_velocity>>,
                  Spacecraft(1, mass, fuel, 0, thrust_levels, exhaust_velocity))

\* Quantizer::q applied to two states under one configuration
quantize ==
    /\ call = None /\ inits = 0
    /\ \E b \in Bins, s1 \in Vertices, s2 \in Vertices :
           called("q", <<QuantizerConfig(b), s1, s2>>,
                  Some(<<q(QuantizerConfig(b), s1), q(QuantizerConfig(b), s2)>>))

\* one component is called once, before the facade is used
NextC ==
    \/ constructWormHole
    \/ constructStationaryBody
    \/ constructOrbitingBody
    \/ constructEllipticalOrbit
    \/ constructArtifact
    \/ constructSpacecraft
    \/ quantize

Components == Init /\ [][NextC]_vars

-----------------------------------------------------------------------------
(* Properties *)

\* the finished compute() calls whose solve returned a result
Returned == {i \in 1..Len(runs) : runs[i].ret # None}
PathOf(i) == runs[i].ret[1].path
CostOf(i) == runs[i].ret[1].total_cost

\* the compute() call that finished last, if it returned a result; every
\* finished call is the last one in the state it ends in
Latest == {i \in {Len(runs)} : i > 0 /\ runs[i].ret # None}

\* C1: whenever solve returns a result, the last state of the returned path
\* has collected at least K artifacts
C1_GoalSatisfied ==
    \A i \in Latest :
        LET path == PathOf(i)
        IN  Cardinality(path[Len(path)].state.collected_artifacts)
                >= runs[i].config.k

\* a solve returned a path of several states for a goal of at least one artifact
C1_Witness ==
    \E i \in Returned : Len(PathOf(i)) > 1 /\ runs[i].config.k >= 1

\* no body of configuration c contains position x
ClearOfBodies(c, x) ==
    \A b \in SeqRange(c.bodies) :
        NormSq(VSub(x, b.position)) > b.radius * b.radius

\* C2: every state of a returned path after the first has fuel >= 0, lies
\* within the horizon and the universe radius, and is inside no body
C2_PathFeasible ==
    \A i \in Latest :
        \A n \in 2..Len(PathOf(i)) :
            LET c == runs[i].config
                sv == PathOf(i)[n].state
            IN  /\ sv.fuel >= 0
                /\ sv.t_u <= c.tmax_u
                /\ NormSq(sv.x) <= c.max_radius * c.max_radius
                /\ ClearOfBodies(c, sv.x)

\* a returned path of several states in a world that has a body
C2_Witness ==
    \E i \in Returned : Len(PathOf(i)) > 1 /\ runs[i].config.bodies # <<>>

\* C3: path[0] is the start with a null action and every later element
\* carries the edge that was taken to reach its state
C3_ActionReachesState ==
    \A i \in Returned :
        LET path == PathOf(i)
            c == runs[i].config
        IN  /\ path[1].state = startOf(c)
            /\ path[1].action = None
            /\ \A n \in 2..Len(path) :
                /\ path[n].action # None
                /\ apply(c, path[n - 1].state, path[n].action[1])
                        = Some(path[n].state)

RECURSIVE SumSeq(_, _)
SumSeq(s, n) == IF n = 0 THEN 0 ELSE SumSeq(s, n - 1) + s[n]

\* the cost of the edge between path elements n and n + 1: the cost of the one
\* enumerated action that leads from the first state to the second
EdgeCosts(c, path) ==
    [n \in 1..(Len(path) - 1) |->
        LET acts == enumerate(c, path[n].state)
            taken == {j \in 1..Len(acts) :
                        apply(c, path[n].state, acts[j])
                            = Some(path[n + 1].state)}
        IN  IF taken = {} THEN -1 ELSE cost(acts[CHOOSE j \in taken : TRUE])]

\* C4: total_cost is the sum of the costs of the edges between consecutive
\* path states, which is (number of states - 1) * dt_u, and 0 for one state
C4_TotalCost ==
    \A i \in Latest :
        LET path == PathOf(i)
            c == runs[i].config
            edges == EdgeCosts(c, path)
        IN  /\ CostOf(i) = SumSeq(edges, Len(edges))
            /\ CostOf(i) = (Len(path) - 1) * c.dt_u
            /\ Len(path) = 1 => CostOf(i) = 0

\* a returned path with at least two edges
C4_Witness == \E i \in Returned : Len(PathOf(i)) >= 3

\* C5: collected sets only grow along a returned path
C5_CollectedMonotone ==
    \A i \in Latest :
        \A n \in 1..(Len(PathOf(i)) - 1) :
            PathOf(i)[n].state.collected_artifacts
                \subseteq PathOf(i)[n + 1].state.collected_artifacts

\* a returned path that collects at one step and keeps it over a later step
C5_Witness ==
    \E i \in Returned :
        \E n \in 2..(Len(PathOf(i)) - 1) :
            /\ PathOf(i)[n].state.collected_artifacts # {}
            /\ PathOf(i)[n + 1].state.collected_artifacts
                    # PathOf(i)[n].state.collected_artifacts

DistinctKeys(c, s) ==
    \A i, j \in 1..Len(s) : i # j => q(c, s[i]) # q(c, s[j])

\* C7: during one solve every key enters visited with exactly one push, no
\* two pushed states and no two expanded states share a key, and the parent
\* map holds exactly the visited keys other than the key of the start
C7_AtMostOnce ==
    pc = "solving" =>
        LET c == config_[1]
        IN  /\ DistinctKeys(c, pushed)
            /\ DistinctKeys(c, popped)
            /\ visited = {q(c, pushed[i]) : i \in 1..Len(pushed)}
            /\ DOMAIN parent_map = visited \ {q(c, startOf(c))}

\* the frontier of a solve, level by level: the states first found for new
\* keys among the successors of the previous level, in enumeration order
RECURSIVE LevelFold(_, _, _, _, _)
LevelFold(c, level, n, seen, next) ==
    IF n > Len(level) THEN [seen |-> seen, next |-> next]
    ELSE LET nhs == neighbors(c, level[n])
             new == SelectSeq([m \in 1..Len(nhs) |-> nhs[m].state],
                        LAMBDA sv :
                            q(c, sv) \notin (seen \cup
                                {q(c, next[m]) : m \in 1..Len(next)}))
             firsts == {m \in 1..Len(new) :
                          \A l \in 1..(m - 1) : q(c, new[l]) # q(c, new[m])}
             kept == SelectSeq(new,
                        LAMBDA sv : \E m \in firsts : new[m] = sv)
         IN  LevelFold(c, level, n + 1, seen, next \o kept)

\* the least number of edges from the start to a goal state in the graph of
\* first-found states per key, or -1 when no goal state is reachable
RECURSIVE MinHopsFrom(_, _, _, _)
MinHopsFrom(c, level, seen, depth) ==
    IF level = <<>> THEN -1
    ELSE IF \E n \in 1..Len(level) :
                Cardinality(level[n].collected_artifacts) >= c.k
    THEN depth
    ELSE LET f == LevelFold(c, level, 1, seen, <<>>)
         IN  MinHopsFrom(c, f.next,
                seen \cup {q(c, f.next[m]) : m \in 1..Len(f.next)},
                depth + 1)

MinHops(c) == MinHopsFrom(c, <<startOf(c)>>, {q(c, startOf(c))}, 0)

\* C8: a returned path has the least number of edges by which a goal state
\* can be reached from the start in the discretized graph
C8_MinimumHops ==
    \A i \in Returned : Len(PathOf(i)) - 1 = MinHops(runs[i].config)

\* the states of s that satisfy the goal of configuration c
Goals(c, s) ==
    {n \in 1..Len(s) : Cardinality(s[n].collected_artifacts) >= c.k}

\* C10: compute() raises SimulationFailed exactly when solve returned no
\* path, which happens only after every state that was on the frontier has
\* been popped and none of them was a goal; otherwise it raises nothing,
\* stores the result and rewinds the cursor
C10_FailedIffNoPath ==
    \A i \in {Len(runs)} \ {0} :
        LET r == runs[i]
        IN  /\ (r.raised = "SimulationFailed") <=> (r.ret = None)
            /\ r.ret # None =>
                /\ r.raised = "none"
                /\ r.stored = r.ret
                /\ r.cursor = 0
            /\ r.ret = None =>
                /\ Goals(r.config, r.pushed) = {}
                /\ Goals(r.config, r.popped) = {}
                /\ \A n \in 1..Len(r.pushed) :
                        \E m \in 1..Len(r.popped) : r.popped[m] = r.pushed[n]

\* one compute() failed after expanding several states, another one succeeded
C10_Witness ==
    /\ \E i \in 1..Len(runs) : runs[i].ret = None /\ Len(runs[i].popped) > 1
    /\ \E i \in Returned : Len(PathOf(i)) > 1

\* the largest number of successors a state can have
Fanout(c) == Len(c.possible_directions) * Len(c.thrust_levels) + 1

\* the number of states on the longest chain of steps that starts at sv and
\* stays within the horizon
Remaining(c, sv) ==
    IF sv.t_u > c.tmax_u THEN 0 ELSE ((c.tmax_u - sv.t_u) \div c.dt_u) + 1

RECURSIVE Power(_, _)
Power(b, e) == IF e = 0 THEN 1 ELSE b * Power(b, e - 1)

\* the work left for a solve with frontier f: every state weighs more than
\* all the successors it can have
RECURSIVE Rank(_, _, _)
Rank(c, f, n) ==
    IF n = 0 THEN 0
    ELSE Rank(c, f, n - 1) + Power(Fanout(c) + 1, Remaining(c, f[n]))

\* a running solve can always take its next step
C9_NotStuck ==
    pc # "reconstructing" /\
    (pc = "solving" =>
        \/ empty(frontier)
        \/ isGoal(config_[1], front(frontier))
        \/ Len(popped) < MaxPops)

\* C9: every solve terminates: a running solve is never stuck, and each of
\* its iterations either ends it or leaves strictly less work on the frontier
C9_Terminates ==
    /\ []C9_NotStuck
    /\ [][pc = "solving" =>
            \/ pc' = "idle"
            \/ /\ pc' = "solving"
               /\ Rank(config_[1], frontier', Len(frontier'))
                    < Rank(config_[1], frontier, Len(frontier))]_vars

\* C11: after a result with a path of n elements was stored, the k-th call
\* to step() returns the frame of path[k-1].state for k <= n, and every later
\* call raises SimulationCompleted and leaves the cursor at n
C11_StepDispenses ==
    /\ [](last_result_ # None =>
            LET n == Len(last_result_[1].path)
            IN  current_step_ = IF calls <= n THEN calls ELSE n)
    /\ [][last_result_ # None /\ calls' = calls + 1 =>
            LET path == last_result_[1].path
            IN  IF calls' <= Len(path)
                THEN /\ frame' = Some(toFrame(config_[1], path[calls'].state))
                     /\ raised' = "none"
                     /\ current_step_' = calls'
                ELSE /\ frame' = None
                     /\ raised' = "SimulationCompleted"
                     /\ current_step_' = Len(path)]_vars
    /\ [][raised' = "SimulationCompleted" =>
            /\ current_step_' = current_step_
            /\ current_step_ = Len(last_result_[1].path)]_vars

\* a path of several elements was dispensed to its end and one more step()
\* was called
C11_Witness ==
    /\ last_result_ # None
    /\ Len(last_result_[1].path) >= 3
    /\ calls = Len(last_result_[1].path) + 1
    /\ raised = "SimulationCompleted"

\* the state the running solve expanded last
Expanded ==
    IF pc = "solving" /\ popped # <<>> THEN {popped[Len(popped)]} ELSE {}

\* the integrated successor of from under action a breaks a constraint
Infeasible(c, from, a) ==
    LET s == findIntState(c, from, a)
    IN  \/ \E b \in SeqRange(c.bodies) :
              NormSq(VSub(s.x, b.position)) <= b.radius * b.radius
        \/ s.t_u > c.tmax_u
        \/ NormSq(s.x) > c.max_radius * c.max_radius
        \/ Len(s.x) # 2 \/ Len(s.v) # 2

\* C12: apply returns None exactly when the integrated successor touches or
\* is inside a body, lies beyond t_max or beyond max_radius, or is malformed;
\* otherwise it returns the integrated state with its fuel clamped at 0
C12_ApplyRejects ==
    \A from \in Expanded :
        LET c == config_[1]
            acts == enumerate(c, from)
        IN  \A j \in 1..Len(acts) :
                LET r == apply(c, from, acts[j])
                    s == findIntState(c, from, acts[j])
                IN  /\ (r = None) <=> Infeasible(c, from, acts[j])
                    /\ r # None =>
                        /\ r[1].x = s.x /\ r[1].v = s.v /\ r[1].t_u = s.t_u
                        /\ r[1].fuel = IF s.fuel < 0 THEN 0 ELSE s.fuel

\* one solve has expanded a state with a successor on the surface of a body
\* (rejected), one with a successor at distance max_radius (accepted) and one
\* with a successor at t_max (accepted)
C12_Witness ==
    /\ pc = "solving"
    /\ LET c == config_[1]
           Succ == {[s |-> findIntState(c, popped[i], enumerate(c, popped[i])[j]),
                     r |-> apply(c, popped[i], enumerate(c, popped[i])[j])] :
                        i \in 1..Len(popped), j \in 1..Fanout(c)}
       IN  /\ \E e \in Succ : \E b \in SeqRange(c.bodies) :
                /\ NormSq(VSub(e.s.x, b.position)) = b.radius * b.radius
                /\ e.r = None
           /\ \E e \in Succ :
                NormSq(e.s.x) = c.max_radius * c.max_radius /\ e.r # None
           /\ \E e \in Succ : e.s.t_u = c.tmax_u /\ e.r # None

\* C13: an infeasible edge only prunes that edge: in every expansion the
\* states pushed are accepted successors of the expanded state, every accepted
\* successor has its key in visited afterwards, the keys entered in visited
\* and in the parent map are the keys of the states pushed, the rest of the
\* frontier stays in place, and the solve goes on without raising anything
C13_PrunesOnlyTheEdge ==
    [][pc = "solving" /\ popped' # popped /\ pc' = "solving" =>
        LET c == config_[1]
            from == front(frontier)
            acts == enumerate(c, from)
            accepted == {apply(c, from, acts[j])[1] :
                            j \in {i \in 1..Len(acts) :
                                      apply(c, from, acts[i]) # None}}
            new == SubSeq(pushed', Len(pushed) + 1, Len(pushed'))
        IN  /\ SeqRange(new) \subseteq accepted
            /\ \A sv \in accepted : q(c, sv) \in visited'
            /\ visited' = visited \cup {q(c, sv) : sv \in SeqRange(new)}
            /\ DOMAIN parent_map' =
                    DOMAIN parent_map \cup {q(c, sv) : sv \in SeqRange(new)}
            /\ frontier' = rest(frontier) \o new
            /\ raised' = raised]_vars

\* the state expanded last has an infeasible action that is enumerated before
\* a feasible one whose successor was pushed for a new key
C13_Witness ==
    \E from \in Expanded :
        LET c == config_[1]
            acts == enumerate(c, from)
        IN  \E i, j \in 1..Len(acts) :
                /\ i < j
                /\ apply(c, from, acts[i]) = None
                /\ apply(c, from, acts[j]) # None
                /\ pushed[Len(pushed)] = apply(c, from, acts[j])[1]

\* C14: enumerate returns |possible_directions| * |thrust_levels| + 1
\* actions, all with dt_global = dt_u; the last one coasts forward, and the
\* others come direction by direction, each direction with all thrust levels
\* in their order
C14_Enumerate ==
    \A from \in Expanded :
        LET c == config_[1]
            acts == enumerate(c, from)
            nd == Len(c.possible_directions)
            nl == Len(c.thrust_levels)
            forward == IF from.v = Zero2 THEN <<1, 0>> ELSE normalized(from.v)
        IN  /\ Len(acts) = nd * nl + 1
            /\ \A j \in 1..Len(acts) : acts[j].dt_global = c.dt_u
            /\ acts[nd * nl + 1].thrust_level = 0
            /\ acts[nd * nl + 1].direction = forward
            /\ \A i \in 1..nd : \A l \in 1..nl :
                    /\ acts[(i - 1) * nl + l].thrust_level = c.thrust_levels[l]
                    /\ acts[(i - 1) * nl + l].direction
                            = rotate2d(c.possible_directions[i], forward)

\* a state moving backwards was expanded with two directions and two levels
C14_Witness ==
    \E from \in Expanded :
        /\ from.v[1] < 0
        /\ Len(config_[1].possible_directions) = 2
        /\ Len(config_[1].thrust_levels) = 2

\* C15: the collected set of an accepted successor is the collected set of
\* its predecessor united with the ids of the artifacts that lie at the
\* successor's position (within epsilon, which is 0 on the lattice); the
\* start state of a solve has collected nothing
C15_CaptureAtEndPoint ==
    /\ pc = "solving" => pushed[1].collected_artifacts = {}
    /\ \A from \in Expanded :
        LET c == config_[1]
            acts == enumerate(c, from)
        IN  \A j \in 1..Len(acts) :
                LET r == apply(c, from, acts[j])
                IN  r # None =>
                      r[1].collected_artifacts =
                        from.collected_artifacts \cup
                        {a.id : a \in {b \in SeqRange(c.artifacts) :
                                          b.position = r[1].x}}

\* a returned path that starts on an artifact, passes over a second one
\* between two of its states and ends on a third one: only the third one is
\* collected
C15_Witness ==
    \E i \in Latest :
        LET path == PathOf(i)
            arts == SeqRange(runs[i].config.artifacts)
            last == path[Len(path)].state
        IN  \E a0, a1, a2 \in arts :
                /\ a0.position = path[1].state.x
                /\ \E n \in 1..(Len(path) - 1) :
                      /\ path[n + 1].state.x[1] < a1.position[1]
                      /\ a1.position[1] < path[n].state.x[1]
                /\ a2.position = last.x
                /\ last.collected_artifacts = {a2.id}

\* the constructor call rec has an argument the entity must not be built from
Malformed(rec) ==
    LET args == rec.args
    IN  \/ rec.fn \in {"StationaryBody", "OrbitingBody"}
            /\ (args[2] <= 0 \/ args[3] <= 0)
        \/ rec.fn = "WormHole" /\ args[4] >= args[5]
        \/ rec.fn = "StationaryBody" /\ shape(args[4]) # <<2, 1>>
        \/ rec.fn = "WormHole"
            /\ (shape(args[2]) # <<2, 1>> \/ shape(args[3]) # <<2, 1>>)
        \/ rec.fn = "Artifact" /\ shape(args[2]) # <<2, 1>>
        \/ rec.fn = "EllipticalOrbit" /\ shape(args[5]) # <<2, 1>>
        \/ rec.fn = "Spacecraft"
            /\ (args[5] = <<>> \/ \E n \in 1..Len(args[5]) : args[5][n] < 0)

\* C16: a constructor called with a malformed argument (a body of mass or
\* radius <= 0, a wormhole with t_open >= t_close, a position, entry, exit
\* or orbit center that is not 2x1, a spacecraft with no thrust level or a
\* negative one) throws and builds nothing
C16_MalformedRejected ==
    \A rec \in SeqRange(call) : Malformed(rec) => rec.ret = None

\* every malformed call except that of a stationary body whose only fault is
\* the shape of its position throws
OtherMalformedRejected ==
    \A rec \in SeqRange(call) :
        /\ Malformed(rec)
        /\ ~(rec.fn = "StationaryBody" /\ rec.args[2] > 0 /\ rec.args[3] > 0)
        => rec.ret = None

\* the state at the bin centers of a key: bin index times bin size
lift(c, k) ==
    StateVertex(<<k.qx[1] * c.pos_bin, k.qx[2] * c.pos_bin>>,
                <<k.qv[1] * c.vel_bin, k.qv[2] * c.vel_bin>>,
                k.qt_u * c.time_bin, k.qfuel * c.fuel_bin,
                k.collected_artifacts)

\* the calls of Quantizer::q
QCalls == {rec \in SeqRange(call) : rec.fn = "q"}

\* C17: quantizing the bin centers of a key gives the key back; the key
\* carries the collected set of the state unchanged; and the keys of two
\* states are equal exactly when the states round to the same bin index in
\* every component of position, velocity, time and fuel and have collected
\* the same set
C17_QuantizerIdempotent ==
    \A rec \in QCalls :
        LET c == rec.args[1]
            s1 == rec.args[2]
            s2 == rec.args[3]
            k1 == rec.ret[1][1]
            k2 == rec.ret[1][2]
        IN  /\ q(c, lift(c, k1)) = k1
            /\ k1.collected_artifacts = s1.collected_artifacts
            /\ (k1 = k2) <=>
                  /\ \A n \in 1..2 :
                        /\ round(s1.x[n], c.pos_bin) = round(s2.x[n], c.pos_bin)
                        /\ round(s1.v[n], c.vel_bin) = round(s2.v[n], c.vel_bin)
                  /\ round(s1.t_u, c.time_bin) = round(s2.t_u, c.time_bin)
                  /\ round(s1.fuel, c.fuel_bin) = round(s2.fuel, c.fuel_bin)
                  /\ s1.collected_artifacts = s2.collected_artifacts

\* q was applied to a state off the bin centers, below zero, that has
\* collected two artifacts, and to a different state of the same key
C17_Witness ==
    \E rec \in QCalls :
        LET c == rec.args[1]
            s1 == rec.args[2]
            s2 == rec.args[3]
            k1 == rec.ret[1][1]
        IN  /\ c.pos_bin = 3
            /\ s1.x[1] = -2
            /\ k1.qx[1] = -1
            /\ lift(c, k1) # s1
            /\ s1.collected_artifacts = {1, 2}
            /\ s2 # s1
            /\ rec.ret[1][2] = k1

\* C18: when the start state satisfies the goal, the first solve of a solver
\* returns the path made of the start state alone, with a null action and a
\* total cost of 0, having popped the start and pushed nothing after it
C18_GoalAtStart ==
    \A i \in {Len(runs)} \ {0} :
        LET c == runs[i].config
            start == startOf(c)
        IN  runs[i].solve = 1 /\ isGoal(c, start) =>
              /\ runs[i].ret = Some(SolverResult(<<StateAction(start, None)>>, 0))
              /\ runs[i].stored = runs[i].ret
              /\ runs[i].raised = "none"
              /\ runs[i].popped = <<start>>
              /\ runs[i].pushed = <<start>>

\* a first solve for a goal of no artifact has returned
C18_Witness ==
    \E i \in Latest :
        /\ runs[i].solve = 1
        /\ runs[i].config.k = 0
        /\ Len(PathOf(i)) = 1
        /\ last_result_ = runs[i].ret

\* C19: in the collision scenario every action at the start state is
\* rejected as a collision, so that the first solve expands the start state
\* alone and compute() raises SimulationFailed
C19_FirstStepCollides ==
    /\ \A from \in Expanded :
          LET c == config_[1]
              acts == enumerate(c, from)
          IN  c = CollisionScenario /\ from = startOf(c) =>
                \A j \in 1..Len(acts) : apply(c, from, acts[j]) = None
    /\ \A i \in {Len(runs)} \ {0} :
          runs[i].config = CollisionScenario /\ runs[i].solve = 1 =>
            /\ runs[i].raised = "SimulationFailed"
            /\ runs[i].popped = <<startOf(runs[i].config)>>

\* the indices of the actions enumerated at from whose successor is accepted
\* and has the key k
Producers(c, from, k) ==
    LET acts == enumerate(c, from)
    IN  {j \in 1..Len(acts) :
            LET r == apply(c, from, acts[j])
            IN  r # None /\ q(c, r[1]) = k}

Least(S) == CHOOSE j \in S : \A i \in S : j <= i

\* C20: during a solve the parent recorded for a key is never replaced, and
\* a key recorded by the expansion of a state gets as parent that state with
\* the first of the enumerated actions that produce the key
C20_FirstParentKept ==
    [][pc = "solving" =>
        /\ \A k \in DOMAIN parent_map :
              k \in DOMAIN parent_map' /\ parent_map'[k] = parent_map[k]
        /\ \A k \in DOMAIN parent_map' \ DOMAIN parent_map :
              LET c == config_[1]
                  from == front(frontier)
                  first == Least(Producers(c, from, k))
              IN  /\ Producers(c, from, k) # {}
                  /\ parent_map'[k] =
                        StateAction(from, Some(enumerate(c, from)[first]))]_vars

\* the state expanded last produced a key that had been recorded for another
\* parent state, and some recorded key is produced by two different actions
\* of its parent state, the earlier of which is the recorded one
C20_Witness ==
    \E from \in Expanded :
        LET c == config_[1]
        IN  /\ \E k \in DOMAIN parent_map :
                  /\ Producers(c, from, k) # {}
                  /\ parent_map[k].state # from
            /\ \E k \in DOMAIN parent_map :
                  LET p == parent_map[k]
                      acts == enumerate(c, p.state)
                  IN  \E j1, j2 \in Producers(c, p.state, k) :
                        /\ j1 < j2
                        /\ acts[j1] # acts[j2]
                        /\ p.action = Some(acts[j1])

\* C21: during a solve the key of the start is not in the parent map, the
\* keys of the parent map are the visited keys other than that of the start,
\* and the reconstruction walk from the state popped last terminates and
\* ends at the start vertex
C21_WalkEndsAtStart ==
    pc = "solving" =>
        LET c == config_[1]
            start == startOf(c)
        IN  /\ q(c, start) \notin DOMAIN parent_map
            /\ DOMAIN parent_map = visited \ {q(c, start)}
            /\ \A from \in Expanded :
                  LET walk == reconstruct(c, from, parent_map)
                  IN  ~walk.diverges /\ walk.path[1].state = start

\* the first two conjuncts of C21 on their own: the parent map never holds
\* the key of the start and holds every other visited key
StartKeyHasNoParent ==
    pc = "solving" =>
        LET c == config_[1]
        IN  /\ q(c, startOf(c)) \notin DOMAIN parent_map
            /\ DOMAIN parent_map = visited \ {q(c, startOf(c))}

\* on the first solve of a solver the walk from every popped state ends at
\* the start
FirstSolveWalkEndsAtStart ==
    pc = "solving" /\ solves = 1 =>
        \A from \in Expanded :
            LET walk == reconstruct(config_[1], from, parent_map)
            IN  ~walk.diverges /\ walk.path[1].state = startOf(config_[1])

\* C22: two solves for the same configuration that are the same number of
\* solves into the life of their solver return the same result whatever
\* their max_cost
C22_MaxCostIgnored ==
    \A j \in {Len(runs)} \ {0} :
        \A i \in 1..j :
            runs[i].config = runs[j].config /\ runs[i].solve = runs[j].solve
            => runs[i].ret = runs[j].ret

\* two such solves returned the same path, one with max_cost at its default
\* and one with a max_cost below the total cost of the path
C22_Witness ==
    \E i, j \in Returned :
        /\ runs[i].config = runs[j].config
        /\ runs[i].solve = runs[j].solve
        /\ runs[i].max_cost = infinity
        /\ runs[j].max_cost < CostOf(j)
        /\ runs[i].ret = runs[j].ret
        /\ Len(PathOf(j)) > 1

\* C23: no two of the actions enumerated at a state have the same thrust
\* level and the same direction
C23_NoDuplicateActions ==
    \A from \in Expanded :
        LET acts == enumerate(config_[1], from)
        IN  \A i, j \in 1..Len(acts) :
                i # j =>
                  ~(/\ acts[i].thrust_level = acts[j].thrust_level
                    /\ acts[i].direction = acts[j].direction)

C25_FuelRule ==
    \A from \in Expanded :
        LET c == config_[1]
            acts == enumerate(c, from)
        IN  \A j \in 1..Len(acts) :
                LET r == apply(c, from, acts[j])
                    s == findIntState(c, from, acts[j])
                    idle == ThrustAction(0, acts[j].dt_global,
                                         acts[j].direction)
                    r0 == apply(c, from, idle)
                IN  /\ r # None =>
                          /\ r[1].fuel = (IF s.fuel > 0 THEN s.fuel ELSE 0)
                          /\ r[1].fuel <= from.fuel
                    /\ from.fuel = 0 =>
                          /\ (r = None) <=> (r0 = None)
                          /\ r # None =>
                                /\ r[1].x = r0[1].x
                                /\ r[1].v = r0[1].v
                                /\ r[1].t_u = r0[1].t_u
                                /\ r[1].fuel = 0

\* a state without fuel was expanded and a powered action was accepted at
\* it, the integrated fuel being negative before the clamp
C25_Witness ==
    \E from \in Expanded :
        LET c == config_[1]
            acts == enumerate(c, from)
        IN  /\ from.fuel = 0
            /\ \E j \in 1..Len(acts) :
                  /\ acts[j].thrust_level > 0
                  /\ apply(c, from, acts[j]) # None
                  /\ findIntState(c, from, acts[j]).fuel < 0

\* C26: while no compute() has stored a result, a call of step() raises
\* SimulationFailed, returns no frame and leaves the cursor and the (absent)
\* stored result as they are; a frame is only ever held after some compute()
\* has returned a result
C26_NoFrameBeforeCompute ==
    /\ [](last_result_ = None =>
            frame = None /\ current_step_ = 0 /\ Returned = {})
    /\ [](frame # None => Returned # {} /\ last_result_ # None)
    /\ [][(/\ last_result_ = None
           /\ pc = "idle" /\ pc' = "idle"
           /\ inits' = inits)
          => /\ raised' = "SimulationFailed"
             /\ frame' = None
             /\ current_step_' = current_step_
             /\ last_result_' = None]_vars

\* step() was called after initialize() and before any compute()
C26_Witness ==
    /\ config_ # None
    /\ last_result_ = None
    /\ raised = "SimulationFailed"
    /\ pc = "idle"
    /\ frame = None
    /\ computes = 0

\* C27: a compute() that ends without a path raises SimulationFailed and
\* leaves the stored result and the cursor as they were; a compute() that
\* ends with a path stores it and puts the cursor at 0; and a step() that
\* finds the cursor before the end of the stored path returns the frame of
\* the path element at the cursor and moves the cursor by one
C27_FailedComputeKeepsResult ==
    /\ [][pc = "solving" /\ pc' = "idle" =>
            LET r == runs'[Len(runs')]
            IN  IF r.ret = None
                THEN /\ raised' = "SimulationFailed"
                     /\ last_result_' = last_result_
                     /\ current_step_' = current_step_
                ELSE /\ raised' = "none"
                     /\ last_result_' = r.ret
                     /\ current_step_' = 0]_vars
    /\ [][(/\ pc = "idle" /\ pc' = "idle"
           /\ inits' = inits
           /\ last_result_ # None
           /\ current_step_ < Len(last_result_[1].path))
          => /\ frame' = Some(toFrame(config_[1],
                          last_result_[1].path[current_step_ + 1].state))
             /\ current_step_' = current_step_ + 1
             /\ last_result_' = last_result_]_vars

\* a compute() has just failed while a path stored by an earlier compute()
\* was dispensed up to its first element: the path and the cursor are kept
C27_Witness ==
    /\ pc = "idle"
    /\ runs # <<>>
    /\ runs[Len(runs)].ret = None
    /\ raised = "SimulationFailed"
    /\ last_result_ # None
    /\ Len(last_result_[1].path) > 1
    /\ current_step_ = 1
    /\ frame # None

\* C28: a solve that follows another solve on the same solver returns what
\* that one returned, and every returned path begins at the start vertex
C28_Repeatable ==
    \A j \in {Len(runs)} \ {0} :
        /\ runs[j].ret # None =>
              PathOf(j)[1].state = startOf(runs[j].config)
        /\ (j > 1 /\ runs[j].solve = runs[j - 1].solve + 1) =>
              runs[j].ret = runs[j - 1].ret

\* the first solve of every solver returns a path that begins at the start
FirstSolveFromStart ==
    \A j \in Latest :
        runs[j].solve = 1 => PathOf(j)[1].state = startOf(runs[j].config)

C30_OnlyLastIsGoal ==
    \A i \in Latest :
        LET path == PathOf(i)
            c == runs[i].config
            states == [n \in 1..Len(path) |-> path[n].state]
        IN  /\ \A n \in 1..(Len(path) - 1) :
                  Cardinality(states[n].collected_artifacts) < c.k
            /\ Cardinality(states[Len(path)].collected_artifacts) >= c.k
            /\ DistinctKeys(c, states)

\* a returned path for a goal of two artifacts whose second state has
\* collected one
C30_Witness ==
    \E i \in Latest :
        /\ runs[i].config.k = 2
        /\ Len(PathOf(i)) >= 3
        /\ Cardinality(PathOf(i)[2].state.collected_artifacts) = 1

=============================================================================
